---- MODULE Spec2Model ----
(***************************************************************************)
(* Model of zk_shell/cli.py: CLI.__call__, the execution-mode dispatcher   *)
(* (one-shot, batch, interactive) and the signal-driven REPL supervisor.   *)
(*                                                                         *)
(* Command texts are sequences of one-character strings, so that rstrip()  *)
(* is computed and not assumed.  The Shell collaborator (shell.py) is      *)
(* external: onecmd() and run() are modelled by the outcomes the caller    *)
(* can observe (a return value or a raised exception).                     *)
(*                                                                         *)
(* Signals follow CPython: an arriving signal only marks its number as     *)
(* pending (arrivals of the same number coalesce); the Python-level        *)
(* handler runs later in the main thread, at whatever line the main        *)
(* thread has reached by then, and the exception it raises starts there.   *)
(***************************************************************************)
EXTENDS Integers, Sequences, FiniteSets, TLC

VARIABLES
    params,        \* the CLIParams record (run_once, run_from_stdin, sync_connect, readonly)
    pc,            \* position of the main thread inside CLI.__call__
    interactive,   \* local `interactive` (line 112)
    async_,        \* local `async` (line 113)
    mode,          \* the branch of the dispatcher that was taken ("none" before)
    stdout_wraps,  \* number of times sys.stdout was replaced by Unbuffered
    shells,        \* keyword arguments of every Shell(...) construction, in order
    rc,            \* local `rc`
    cmds,          \* the list returned by sys.stdin.readlines()
    idx,           \* position of the batch for-loop in cmds
    onecmd_log,    \* arguments of every shell.onecmd call, in order
    last_result,   \* outcome of the latest shell.onecmd call
    handler,       \* TRUE when sigusr_handler is installed for SIGUSR2
    register_calls,\* number of signal.signal calls
    first,         \* local `first`
    run_log,       \* arguments of every shell.run call, in order
    pending,       \* signal numbers marked pending and not yet handled
    burst,         \* SIGUSR2 arrivals since the latest shell.run call
    confirms,      \* number of "Exit? (y|n)" prompts shown
    done,          \* local `done`, the latest answer ("unset" before)
    exit_code,     \* <<>> while running, <<n>> once the process exited with n
    escaped,       \* <<>>, or <<exception, pc>> of an exception that left __call__
    why,           \* history: how the latest shell.run call ended ("none" before)
    restarts,      \* history: number of StateTransition exceptions caught at line 147
    stdin_read,    \* history: the lines readlines() consumed from standard input
    read_failed    \* history: TRUE when readlines() raised IOError

vars == <<params, pc, interactive, async_, mode, stdout_wraps, shells, rc, cmds,
          idx, onecmd_log, last_result, handler, register_calls, first, run_log,
          pending, burst, confirms, done, exit_code, escaped, why, restarts,
          stdin_read, read_failed>>

\* ---------------------------------------------------------------- bounds
MaxRuns  == 3   \* shell.run calls explored per process
MaxBurst == 2   \* SIGUSR2 arrivals explored between two shell.run calls
MaxLines == 2   \* lines of standard input explored

\* ---------------------------------------------------------------- inputs
EmptyStr == <<>>

RunOnceValues == {EmptyStr, <<"l", "s">>}

Whitespace == {" ", "\t", "\n", "\r"}

StdinLineValues ==
    { <<"a", "\n">>, <<"b", " ", "\n">>, <<"\n">>, <<"c">> }

StdinInputs ==
    UNION { [1..n -> StdinLineValues] : n \in 0..MaxLines }

OnecmdOutcomes == {"None", "False", "True", "IOError"}

Answers == {"y", "n", "", "Y", "yes"}

ParamValues ==
    [run_once : RunOnceValues, run_from_stdin : BOOLEAN,
     sync_connect : BOOLEAN, readonly : BOOLEAN]

\* ---------------------------------------------------------------- helpers
\* str.rstrip() with no argument: drop every trailing whitespace character
RECURSIVE rstrip(_)
rstrip(s) ==
    IF s = <<>> THEN <<>>
    ELSE IF s[Len(s)] \in Whitespace THEN rstrip(SubSeq(s, 1, Len(s) - 1))
    ELSE s

\* line 112 with the run_once test dropped
InteractiveIgnoresRunOnce(p) == ~p.run_from_stdin

\* line 112
Interactive(p) == p.run_once = EmptyStr /\ ~p.run_from_stdin

\* line 113 with the `not interactive` test dropped
AsyncIgnoresMode(p, inter) == IF p.sync_connect THEN FALSE ELSE TRUE

\* line 113
Async(p, inter) == IF p.sync_connect \/ ~inter THEN FALSE ELSE TRUE

\* lines 125, 128: which branch the dispatcher takes
SelectMode(p, inter) ==
    IF ~inter
    THEN IF p.run_once # EmptyStr THEN "OneShot" ELSE "Batch"
    ELSE "Interactive"

\* line 129 testing truthiness (`not result`) instead of `== None`
OneShotRcFalsy(result) == IF result \in {"None", "False"} THEN 0 ELSE 1

\* line 129: rc = 0 if shell.onecmd(...) == None else 1
OneShotRc(result) == IF result = "None" THEN 0 ELSE 1

\* line 139 with the sync_connect test dropped
ShouldRegisterAlways(p) == TRUE

\* line 139
ShouldRegister(p) == ~p.sync_connect

\* line 146 passing the banner on every call
IntroArgAlways(f) == "intro"

\* line 146: intro if first else None
IntroArg(f) == IF f THEN "intro" ELSE "None"

\* lines 147-149 with StateTransition handled by the KeyboardInterrupt clause
ExceptClauseOneClause(exc) ==
    IF exc \in {"StateTransition", "KeyboardInterrupt"} THEN "confirm"
    ELSE "crashed"

\* lines 147-149: where an exception raised inside the try body lands
ExceptClause(exc) ==
    IF exc = "StateTransition" THEN "after"
    ELSE IF exc = "KeyboardInterrupt" THEN "confirm"
    ELSE "crashed"

\* line 151 comparing case-insensitively
IsDoneAnyCase(answer) == answer \in {"y", "Y"}

\* line 151
IsDone(answer) == answer = "y"

\* the exception raised by the handler of a signal number
\* (SIGUSR2: sigusr_handler, lines 81-83; SIGINT: Python's default handler)
Raised(sig) == IF sig = "SIGUSR2" THEN "StateTransition" ELSE "KeyboardInterrupt"

\* positions of the supervisor (lines 139-153) and those inside its try body
SupervisorPcs == {"register", "intro", "loop", "run", "confirm", "after"}
LoopPcs       == {"loop", "run", "confirm", "after"}

\* ---------------------------------------------------------------- Init
Init ==
    /\ params \in ParamValues
    /\ pc = "start"
    /\ interactive = FALSE
    /\ async_ = FALSE
    /\ mode = "none"
    /\ stdout_wraps = 0
    /\ shells = <<>>
    /\ rc = 0
    /\ cmds = <<>>
    /\ idx = 1
    /\ onecmd_log = <<>>
    /\ last_result = "none"
    /\ handler = FALSE
    /\ register_calls = 0
    /\ first = FALSE
    /\ run_log = <<>>
    /\ pending = {}
    /\ burst = 0
    /\ confirms = 0
    /\ done = "unset"
    /\ exit_code = <<>>
    /\ escaped = <<>>
    /\ why = "none"
    /\ restarts = 0
    /\ stdin_read = <<>>
    /\ read_failed = FALSE

\* ---------------------------------------------------------------- startup
\* lines 112-113
ComputeFlags ==
    /\ pc = "start"
    /\ interactive' = Interactive(params)
    /\ async_' = Async(params, Interactive(params))
    /\ pc' = "unbuffer"
    /\ UNCHANGED <<params, mode, stdout_wraps, shells, rc, cmds, idx, onecmd_log,
                   last_result, handler, register_calls, first, run_log, pending,
                   burst, confirms, done, exit_code, escaped,
                   why, restarts,
                   stdin_read, read_failed>>

\* lines 115-116 with the `not interactive` test dropped
SetUnbufferedAlways ==
    /\ pc = "unbuffer"
    /\ stdout_wraps' = stdout_wraps + 1
    /\ pc' = "new_shell"
    /\ UNCHANGED <<params, interactive, async_, mode, shells, rc, cmds, idx,
                   onecmd_log, last_result, handler, register_calls, first, run_log,
                   pending, burst, confirms, done, exit_code, escaped,
                   why, restarts,
                   stdin_read, read_failed>>

\* lines 115-116 (set_unbuffered_mode, lines 86-99)
SetUnbuffered ==
    /\ pc = "unbuffer"
    /\ stdout_wraps' = IF ~interactive THEN stdout_wraps + 1 ELSE stdout_wraps
    /\ pc' = "new_shell"
    /\ UNCHANGED <<params, interactive, async_, mode, shells, rc, cmds, idx,
                   onecmd_log, last_result, handler, register_calls, first, run_log,
                   pending, burst, confirms, done, exit_code, escaped,
                   why, restarts,
                   stdin_read, read_failed>>

\* lines 118-123
NewShell ==
    /\ pc = "new_shell"
    /\ shells' = Append(shells, [setup_readline |-> interactive,
                                 unbuffered     |-> stdout_wraps > 0,
                                 async          |-> async_,
                                 read_only      |-> params.readonly])
    /\ pc' = "dispatch"
    /\ UNCHANGED <<params, interactive, async_, mode, stdout_wraps, rc, cmds, idx,
                   onecmd_log, last_result, handler, register_calls, first, run_log,
                   pending, burst, confirms, done, exit_code, escaped,
                   why, restarts,
                   stdin_read, read_failed>>

\* lines 125-128 and 139: the dispatcher's branch
Dispatch ==
    /\ pc = "dispatch"
    /\ mode' = SelectMode(params, interactive)
    /\ rc' = 0
    /\ pc' = IF mode' = "OneShot" THEN "oneshot"
             ELSE IF mode' = "Batch" THEN "batch_read"
             ELSE "register"
    /\ UNCHANGED <<params, interactive, async_, stdout_wraps, shells, cmds, idx,
                   onecmd_log, last_result, handler, register_calls, first, run_log,
                   pending, burst, confirms, done, exit_code, escaped,
                   why, restarts,
                   stdin_read, read_failed>>

\* ---------------------------------------------------------------- one-shot
\* lines 127-129, 134-135
RunOnce ==
    /\ pc = "oneshot"
    /\ \E res \in OnecmdOutcomes :
          /\ onecmd_log' = Append(onecmd_log, params.run_once)
          /\ last_result' = res
          /\ rc' = IF res = "IOError" THEN 1 ELSE OneShotRc(res)
    /\ pc' = "exit"
    /\ UNCHANGED <<params, interactive, async_, mode, stdout_wraps, shells, cmds,
                   idx, handler, register_calls, first, run_log, pending, burst,
                   confirms, done, exit_code, escaped,
                   why, restarts,
                   stdin_read, read_failed>>

\* ---------------------------------------------------------------- batch
\* line 132 iterating over sys.stdin lazily: the lines consumed before a read
\* failure are handed to the loop
BatchReadStreaming ==
    /\ pc = "batch_read"
    /\ \/ \E input \in StdinInputs :
             /\ cmds' = input
             /\ stdin_read' = input
             /\ read_failed' = FALSE
             /\ idx' = 1
             /\ rc' = 0
             /\ pc' = IF input = <<>> THEN "exit" ELSE "batch_exec"
       \/ \E got \in StdinInputs :
             /\ stdin_read' = got
             /\ read_failed' = TRUE
             /\ rc' = 1
             /\ cmds' = got
             /\ idx' = 1
             /\ pc' = IF got = <<>> THEN "exit" ELSE "batch_exec"
    /\ UNCHANGED <<params, interactive, async_, mode, stdout_wraps, shells,
                   onecmd_log, last_result, handler, register_calls, first, run_log,
                   pending, burst, confirms, done, exit_code, escaped,
                   why, restarts>>

\* lines 131-132, 134-135: sys.stdin.readlines() consumes standard input up
\* to its end and returns every line, or raises IOError after having
\* consumed some of the lines (which are then lost with the exception)
BatchRead ==
    /\ pc = "batch_read"
    /\ \/ \E input \in StdinInputs :
             /\ cmds' = input
             /\ stdin_read' = input
             /\ read_failed' = FALSE
             /\ idx' = 1
             /\ rc' = 0
             /\ pc' = IF input = <<>> THEN "exit" ELSE "batch_exec"
       \/ \E got \in StdinInputs :
             /\ stdin_read' = got
             /\ read_failed' = TRUE
             /\ rc' = 1
             /\ pc' = "exit"
             /\ UNCHANGED <<cmds, idx>>
    /\ UNCHANGED <<params, interactive, async_, mode, stdout_wraps, shells,
                   onecmd_log, last_result, handler, register_calls, first, run_log,
                   pending, burst, confirms, done, exit_code, escaped,
                   why, restarts>>

\* lines 132-135 with the IOError of a command caught inside the loop: the
\* loop goes on and rc is left alone
BatchExecSwallows ==
    /\ pc = "batch_exec"
    /\ idx <= Len(cmds)
    /\ \E res \in OnecmdOutcomes :
          /\ onecmd_log' = Append(onecmd_log, rstrip(cmds[idx]))
          /\ last_result' = res
          /\ rc' = rc
          /\ idx' = idx + 1
          /\ pc' = IF idx + 1 > Len(cmds) THEN "exit" ELSE "batch_exec"
    /\ UNCHANGED <<params, interactive, async_, mode, stdout_wraps, shells, cmds,
                   handler, register_calls, first, run_log, pending, burst,
                   confirms, done, exit_code, escaped,
                   why, restarts,
                   stdin_read, read_failed>>

\* lines 132-135 with the one-shot test of line 129 applied to every command
BatchExecChecksResult ==
    /\ pc = "batch_exec"
    /\ idx <= Len(cmds)
    /\ \E res \in OnecmdOutcomes :
          /\ onecmd_log' = Append(onecmd_log, rstrip(cmds[idx]))
          /\ last_result' = res
          /\ IF res = "IOError"
             THEN /\ rc' = 1
                  /\ pc' = "exit"
                  /\ idx' = idx
             ELSE /\ rc' = IF OneShotRc(res) = 1 THEN 1 ELSE rc
                  /\ idx' = idx + 1
                  /\ pc' = IF idx + 1 > Len(cmds) THEN "exit" ELSE "batch_exec"
    /\ UNCHANGED <<params, interactive, async_, mode, stdout_wraps, shells, cmds,
                   handler, register_calls, first, run_log, pending, burst,
                   confirms, done, exit_code, escaped,
                   why, restarts,
                   stdin_read, read_failed>>

\* lines 132-135: one iteration of the for loop
BatchExec ==
    /\ pc = "batch_exec"
    /\ idx <= Len(cmds)
    /\ \E res \in OnecmdOutcomes :
          /\ onecmd_log' = Append(onecmd_log, rstrip(cmds[idx]))
          /\ last_result' = res
          /\ IF res = "IOError"
             THEN /\ rc' = 1
                  /\ pc' = "exit"
                  /\ idx' = idx
             ELSE /\ rc' = rc
                  /\ idx' = idx + 1
                  /\ pc' = IF idx + 1 > Len(cmds) THEN "exit" ELSE "batch_exec"
    /\ UNCHANGED <<params, interactive, async_, mode, stdout_wraps, shells, cmds,
                   handler, register_calls, first, run_log, pending, burst,
                   confirms, done, exit_code, escaped,
                   why, restarts,
                   stdin_read, read_failed>>

\* line 137 missing: control falls through to the supervisor
SysExitFallsThrough ==
    /\ pc = "exit"
    /\ exit_code' = exit_code
    /\ pc' = "register"
    /\ UNCHANGED <<params, interactive, async_, mode, stdout_wraps, shells, rc,
                   cmds, idx, onecmd_log, last_result, handler, register_calls,
                   first, run_log, pending, burst, confirms, done, escaped,
                   why, restarts,
                   stdin_read, read_failed>>

\* line 137
SysExit ==
    /\ pc = "exit"
    /\ exit_code' = <<rc>>
    /\ pc' = "exited"
    /\ UNCHANGED <<params, interactive, async_, mode, stdout_wraps, shells, rc,
                   cmds, idx, onecmd_log, last_result, handler, register_calls,
                   first, run_log, pending, burst, confirms, done, escaped,
                   why, restarts,
                   stdin_read, read_failed>>

\* ---------------------------------------------------------------- supervisor
\* lines 139-140
Register ==
    /\ pc = "register"
    /\ IF ShouldRegister(params)
       THEN /\ handler' = TRUE
            /\ register_calls' = register_calls + 1
       ELSE UNCHANGED <<handler, register_calls>>
    /\ pc' = "intro"
    /\ UNCHANGED <<params, interactive, async_, mode, stdout_wraps, shells, rc,
                   cmds, idx, onecmd_log, last_result, first, run_log, pending,
                   burst, confirms, done, exit_code, escaped,
                   why, restarts,
                   stdin_read, read_failed>>

\* lines 142-143
Intro ==
    /\ pc = "intro"
    /\ first' = TRUE
    /\ pc' = "loop"
    /\ UNCHANGED <<params, interactive, async_, mode, stdout_wraps, shells, rc,
                   cmds, idx, onecmd_log, last_result, handler, register_calls,
                   run_log, pending, burst, confirms, done, exit_code, escaped,
                   why, restarts,
                   stdin_read, read_failed>>

\* lines 144-146: enter the try body and call shell.run
CallRun ==
    /\ pc = "loop"
    /\ Len(run_log) < MaxRuns
    /\ run_log' = Append(run_log, IntroArg(first))
    /\ burst' = 0
    /\ pc' = "run"
    /\ UNCHANGED <<params, interactive, async_, mode, stdout_wraps, shells, rc,
                   cmds, idx, onecmd_log, last_result, handler, register_calls,
                   first, pending, confirms, done, exit_code, escaped,
                   why, restarts,
                   stdin_read, read_failed>>

\* line 146: shell.run returns normally (a signal that arrived while it was
\* blocked has had its handler run before the call can return)
RunReturns ==
    /\ pc = "run"
    /\ pending = {}
    /\ pc' = "after"
    /\ why' = "returned"
    /\ UNCHANGED <<params, interactive, async_, mode, stdout_wraps, shells, rc,
                   cmds, idx, onecmd_log, last_result, handler, register_calls,
                   first, run_log, pending, burst, confirms, done, exit_code,
                   escaped, restarts,
                   stdin_read, read_failed>>

\* line 153 followed by a jump back to line 118: the Shell is constructed
\* and the handler registered on every pass of the loop
SetFirstRebuilds ==
    /\ pc = "after"
    /\ first' = FALSE
    /\ pc' = "new_shell"
    /\ UNCHANGED <<params, interactive, async_, mode, stdout_wraps, shells, rc,
                   cmds, idx, onecmd_log, last_result, handler, register_calls,
                   run_log, pending, burst, confirms, done, exit_code, escaped,
                   why, restarts,
                   stdin_read, read_failed>>

\* line 153 missing: `first` is never cleared
SetFirstKeeps ==
    /\ pc = "after"
    /\ first' = first
    /\ pc' = "loop"
    /\ UNCHANGED <<params, interactive, async_, mode, stdout_wraps, shells, rc,
                   cmds, idx, onecmd_log, last_result, handler, register_calls,
                   run_log, pending, burst, confirms, done, exit_code, escaped,
                   why, restarts,
                   stdin_read, read_failed>>

\* line 153, then back to line 144
SetFirst ==
    /\ pc = "after"
    /\ first' = FALSE
    /\ pc' = "loop"
    /\ UNCHANGED <<params, interactive, async_, mode, stdout_wraps, shells, rc,
                   cmds, idx, onecmd_log, last_result, handler, register_calls,
                   run_log, pending, burst, confirms, done, exit_code, escaped,
                   why, restarts,
                   stdin_read, read_failed>>

\* lines 150-153: raw_input returns the user's answer (a signal that arrived
\* while it was blocked has had its handler run before the call can return)
Answer ==
    /\ pc = "confirm"
    /\ pending = {}
    /\ \E a \in Answers :
          /\ done' = a
          /\ IF IsDone(a)
             THEN /\ pc' = "returned"     \* break: __call__ returns, the process ends normally
                  /\ exit_code' = <<0>>
             ELSE /\ pc' = "after"
                  /\ exit_code' = exit_code
          /\ why' = IF IsDone(a) THEN why ELSE "declined"
    /\ UNCHANGED <<params, interactive, async_, mode, stdout_wraps, shells, rc,
                   cmds, idx, onecmd_log, last_result, handler, register_calls,
                   first, run_log, pending, burst, confirms, escaped, restarts,
                   stdin_read, read_failed>>

\* ---------------------------------------------------------------- signals
\* the connection changed state: SIGUSR2 is sent to the process (bridge armed)
Usr2Arrives ==
    /\ handler
    /\ pc \in SupervisorPcs
    /\ burst < MaxBurst
    /\ pending' = pending \cup {"SIGUSR2"}
    /\ burst' = burst + 1
    /\ UNCHANGED <<params, pc, interactive, async_, mode, stdout_wraps, shells, rc,
                   cmds, idx, onecmd_log, last_result, handler, register_calls,
                   first, run_log, confirms, done, exit_code, escaped,
                   why, restarts,
                   stdin_read, read_failed>>

\* the user presses the interrupt key: SIGINT is sent to the process
IntArrives ==
    /\ pc \in LoopPcs
    /\ "SIGINT" \notin pending
    /\ pending' = pending \cup {"SIGINT"}
    /\ UNCHANGED <<params, pc, interactive, async_, mode, stdout_wraps, shells, rc,
                   cmds, idx, onecmd_log, last_result, handler, register_calls,
                   first, run_log, burst, confirms, done, exit_code, escaped,
                   why, restarts,
                   stdin_read, read_failed>>

\* where an exception raised at position `at` goes: the except clauses of
\* lines 147-149 guard only the try body (line 146)
Lands(exc, at) == IF at = "run" THEN ExceptClause(exc) ELSE "crashed"

\* sigusr_handler runs (lines 81-83) and raises StateTransition at the
\* position the main thread has reached
DeliverUsr2 ==
    /\ "SIGUSR2" \in pending
    /\ pc \in SupervisorPcs
    /\ pending' = pending \ {"SIGUSR2"}
    /\ pc' = Lands(Raised("SIGUSR2"), pc)
    /\ confirms' = IF pc' = "confirm" THEN confirms + 1 ELSE confirms
    /\ escaped' = IF pc' = "crashed" THEN <<Raised("SIGUSR2"), pc>> ELSE escaped
    /\ why' = IF pc = "run" THEN Raised("SIGUSR2") ELSE why
    /\ restarts' = IF pc' = "after" THEN restarts + 1 ELSE restarts
    /\ UNCHANGED <<params, interactive, async_, mode, stdout_wraps, shells, rc,
                   cmds, idx, onecmd_log, last_result, handler, register_calls,
                   first, run_log, burst, done, exit_code,
                   stdin_read, read_failed>>

\* Python's default SIGINT handler runs and raises KeyboardInterrupt at the
\* position the main thread has reached
DeliverInt ==
    /\ "SIGINT" \in pending
    /\ pc \in SupervisorPcs
    /\ pending' = pending \ {"SIGINT"}
    /\ pc' = Lands(Raised("SIGINT"), pc)
    /\ confirms' = IF pc' = "confirm" THEN confirms + 1 ELSE confirms
    /\ escaped' = IF pc' = "crashed" THEN <<Raised("SIGINT"), pc>> ELSE escaped
    /\ why' = IF pc = "run" THEN Raised("SIGINT") ELSE why
    /\ restarts' = IF pc' = "after" THEN restarts + 1 ELSE restarts
    /\ UNCHANGED <<params, interactive, async_, mode, stdout_wraps, shells, rc,
                   cmds, idx, onecmd_log, last_result, handler, register_calls,
                   first, run_log, burst, done, exit_code,
                   stdin_read, read_failed>>

\* ---------------------------------------------------------------- spec
Next ==
    \/ ComputeFlags
    \/ SetUnbuffered
    \/ NewShell
    \/ Dispatch
    \/ RunOnce
    \/ BatchRead
    \/ BatchExec
    \/ SysExit
    \/ Register
    \/ Intro
    \/ CallRun
    \/ RunReturns
    \/ SetFirst
    \/ Answer
    \/ Usr2Arrives
    \/ IntArrives
    \/ DeliverUsr2
    \/ DeliverInt

Spec == Init /\ [][Next]_vars

\* the non-interactive path is straight-line code: once standard input has
\* reached its end and the Shell has answered, the next statement runs
LiveSpec ==
    /\ Spec
    /\ WF_vars(RunOnce)
    /\ WF_vars(BatchRead)
    /\ WF_vars(BatchExec)
    /\ WF_vars(SysExit)

\* ================================================================ properties
StartupPcs  == {"start", "unbuffer", "new_shell", "dispatch"}
TerminalPcs == {"exited", "returned", "crashed"}

\* the mode the configuration calls for: run_once first, then run_from_stdin
ExpectedMode(p) ==
    IF p.run_once # EmptyStr THEN "OneShot"
    ELSE IF p.run_from_stdin THEN "Batch"
    ELSE "Interactive"

BannerCount == Cardinality({i \in DOMAIN run_log : run_log[i] = "intro"})

\* C1: the dispatcher takes exactly one branch, and it is OneShot when
\* run_once is non-empty, else Batch when run_from_stdin, else Interactive;
\* the positions and calls of the other two modes are never reached, and
\* sync_connect and readonly play no part.
C1_ModeSelection ==
    /\ pc \in StartupPcs => mode = "none"
    /\ pc \notin StartupPcs => mode = ExpectedMode(params)
    /\ pc = "oneshot" => mode = "OneShot"
    /\ pc \in {"batch_read", "batch_exec"} => mode = "Batch"
    /\ pc \in SupervisorPcs \cup {"returned", "crashed"} => mode = "Interactive"
    /\ run_log # <<>> => mode = "Interactive"
    /\ onecmd_log # <<>> => mode \in {"OneShot", "Batch"}
    /\ cmds # <<>> => mode = "Batch"

\* a run with both run_once and run_from_stdin set went through OneShot
C1_Witness ==
    /\ params.run_once # EmptyStr
    /\ params.run_from_stdin
    /\ params.sync_connect
    /\ mode = "OneShot"
    /\ pc = "exited"

\* C2: signal.signal is called, and the SIGUSR2 handler is installed, only in
\* Interactive mode with sync_connect false; once startup is past line 140
\* the handler is installed exactly when sync_connect is false; OneShot,
\* Batch and synchronous Interactive runs never execute the registration.
C2_BridgeArmed ==
    /\ handler => (mode = "Interactive" /\ ~params.sync_connect)
    /\ register_calls > 0 => (mode = "Interactive" /\ ~params.sync_connect)
    /\ handler <=> register_calls > 0
    /\ pc \in (SupervisorPcs \ {"register"}) \cup {"returned", "crashed"}
          => (handler <=> ~params.sync_connect)

\* an asynchronous interactive run is in the prompt loop with the handler set
C2_Witness ==
    /\ pc = "run"
    /\ ~params.sync_connect
    /\ handler
    /\ register_calls = 1

\* C3: a StateTransition raised while shell.run is active is caught at line
\* 147: no confirmation prompt, no exit code, nothing escapes, and the next
\* shell.run call the supervisor makes passes None.
C3_ReconnectRestarts ==
    [][ /\ (pc = "run" /\ "SIGUSR2" \in pending /\ "SIGUSR2" \notin pending')
            => /\ pc' = "after"
               /\ confirms' = confirms
               /\ exit_code' = exit_code /\ exit_code = <<>>
               /\ escaped' = escaped
               /\ run_log' = run_log
        /\ (pc = "loop" /\ pc' = "run" /\ why = "StateTransition")
            => /\ run_log' = Append(run_log, "None")
               /\ exit_code' = <<>>
               /\ escaped' = <<>>
      ]_vars

\* the prompt loop was restarted after a reconnection, without any prompt
C3_Witness ==
    /\ pc = "run"
    /\ why = "StateTransition"
    /\ restarts = 1
    /\ run_log = <<"intro", "None">>
    /\ confirms = 0

\* C4: a KeyboardInterrupt raised while shell.run is active leads to the
\* confirmation prompt; the answer "y" leaves the loop and the process ends
\* with status 0; any other answer goes back to shell.run with None.
C4_InterruptConfirms ==
    [][ /\ (pc = "run" /\ "SIGINT" \in pending /\ "SIGINT" \notin pending')
            => /\ pc' = "confirm"
               /\ confirms' = confirms + 1
        /\ (pc = "confirm" /\ pc' # pc /\ pending' = pending)
            => IF done' = "y"
               THEN pc' = "returned" /\ exit_code' = <<0>>
               ELSE pc' = "after" /\ exit_code' = <<>> /\ why' = "declined"
        /\ (pc = "loop" /\ pc' = "run" /\ why = "declined")
            => run_log' = Append(run_log, "None")
      ]_vars

\* the user declined once (with an answer that is not "y") and then confirmed
C4_Witness ==
    /\ pc = "returned"
    /\ done = "y"
    /\ exit_code = <<0>>
    /\ confirms = 2
    /\ run_log = <<"intro", "None">>

\* C5 (as claimed): once the prompt loop has been entered, neither
\* StateTransition nor KeyboardInterrupt leaves CLI.__call__ unhandled,
\* whether it is raised during shell.run, during raw_input or in between.
C5_NeverEscapes ==
    run_log # <<>> => (pc # "crashed" /\ escaped = <<>>)

\* C6 (as claimed): the interactive process ends only after the answer "y";
\* no user interrupt and no reconnection notification ends it otherwise.
C6_EndsOnlyOnYes ==
    /\ (run_log # <<>> /\ pc \in TerminalPcs) => done = "y"
    /\ (run_log # <<>> /\ escaped # <<>>) => escaped[1] # "KeyboardInterrupt"

\* C7 (as claimed): two or more reconnection notifications arriving after a
\* shell.run call and before the next one never terminate the process.
C7_BurstRestartsOnce ==
    (run_log # <<>> /\ burst >= 2) => pc \notin TerminalPcs

\* C8: only the first shell.run call receives the banner; every later call
\* receives None.
C8_BannerOnlyFirst ==
    \A i \in DOMAIN run_log : (run_log[i] = "intro") <=> (i = 1)

\* shell.run was called again after returning normally
C8_Witness ==
    /\ Len(run_log) >= 2
    /\ why = "returned"
    /\ pc = "run"
    /\ run_log[Len(run_log)] = "None"

\* C9: in an interactive run that has reached the prompt loop the banner
\* was passed exactly once, however many reconnection restarts happened.
C9_BannerExactlyOnce ==
    /\ run_log = <<>> => BannerCount = 0
    /\ run_log # <<>> => BannerCount = 1
    /\ restarts > 0 => BannerCount = 1

\* two reconnection restarts, still one banner
C9_Witness ==
    /\ restarts >= 2
    /\ pc = "run"
    /\ BannerCount = 1

\* C10: in OneShot mode shell.onecmd is called once, with run_once, and the
\* exit code is 0 when it returned None and 1 when it returned anything else
\* or raised IOError.
C10_OneShotExit ==
    mode = "OneShot" =>
        /\ Len(onecmd_log) <= 1
        /\ pc \in {"exit", "exited"} => onecmd_log = <<params.run_once>>
        /\ pc = "exited" =>
              exit_code = << IF last_result = "None" THEN 0 ELSE 1 >>
        /\ pc # "exited" => exit_code = <<>>

\* a one-shot command returned False and the process exited with 1
C10_Witness ==
    /\ mode = "OneShot"
    /\ pc = "exited"
    /\ last_result = "False"
    /\ exit_code = <<1>>

\* the commands executed so far are the first lines of the input, in order
ExecutedInOrder ==
    /\ Len(onecmd_log) <= Len(cmds)
    /\ \A i \in DOMAIN onecmd_log : onecmd_log[i] = rstrip(cmds[i])

\* a command raised IOError (the loop stops at the first one)
CommandFailed == last_result = "IOError"

\* C11 (as claimed): in Batch mode the commands run in input order; a read
\* failure leaves the later commands unexecuted and exits with 1; without a
\* read failure every command has run and the exit code is 0.
C11_BatchAsClaimed ==
    mode = "Batch" =>
        /\ ExecutedInOrder
        /\ read_failed => onecmd_log = <<>>
        /\ (pc = "exited" /\ read_failed) => exit_code = <<1>>
        /\ (pc = "exited" /\ ~read_failed)
              => (Len(onecmd_log) = Len(cmds) /\ exit_code = <<0>>)

\* C11 (amended): in Batch mode the commands run in input order; a read
\* failure leaves every command unexecuted and exits with 1; without a read
\* failure and without a command raising IOError every command has run and
\* the exit code is 0; a command that raises IOError is the last one
\* executed and the exit code is 1.
C11_BatchExit ==
    mode = "Batch" =>
        /\ ExecutedInOrder
        /\ read_failed => (onecmd_log = <<>> /\ cmds = <<>>)
        /\ ~read_failed => cmds = stdin_read
        /\ (pc = "exited" /\ read_failed) => exit_code = <<1>>
        /\ (pc = "exited" /\ ~read_failed /\ ~CommandFailed)
              => (Len(onecmd_log) = Len(cmds) /\ exit_code = <<0>>)
        /\ CommandFailed => pc \in {"exit", "exited"}
        /\ (pc = "exited" /\ CommandFailed) => exit_code = <<1>>

\* the first of two commands raised IOError: the second never ran, exit 1
C11_Witness ==
    /\ mode = "Batch"
    /\ pc = "exited"
    /\ Len(cmds) = 2
    /\ Len(onecmd_log) = 1
    /\ CommandFailed
    /\ exit_code = <<1>>

\* C12 (as claimed): in Batch mode the exit code is 1 exactly when reading
\* failed, and whatever a command returns or raises, the remaining commands
\* still run.
C12_OnlyReadFailureCounts ==
    (mode = "Batch" /\ pc = "exited") =>
        /\ exit_code = << IF read_failed THEN 1 ELSE 0 >>
        /\ ~read_failed => Len(onecmd_log) = Len(cmds)

\* C12 (amended): in Batch mode the value a command returns never changes
\* the exit code and never stops the remaining commands; the exit code is 1
\* exactly when reading raised IOError or a command raised IOError, and a
\* command that raises IOError stops the remaining commands.
C12_ReturnValuesIgnored ==
    mode = "Batch" =>
        /\ pc = "batch_exec" => (rc = 0 /\ idx = Len(onecmd_log) + 1 /\ ~CommandFailed)
        /\ pc = "exited" =>
              /\ exit_code = << IF read_failed \/ CommandFailed THEN 1 ELSE 0 >>
              /\ (~read_failed /\ ~CommandFailed) => Len(onecmd_log) = Len(cmds)

\* two commands ran, the last one returned False, and the exit code is 0
C12_Witness ==
    /\ mode = "Batch"
    /\ pc = "exited"
    /\ Len(onecmd_log) = 2
    /\ last_result = "False"
    /\ exit_code = <<0>>

NonInteractive == mode \in {"OneShot", "Batch"}

NonInteractivePcs == {"oneshot", "batch_read", "batch_exec", "exit", "exited"}

\* C13: a OneShot or Batch run never enters the supervisor: shell.run is
\* never called, no confirmation prompt is shown, __call__ never returns;
\* the run ends in sys.exit with a code that is 0 or 1.
C13_NonInteractiveExits ==
    /\ [](NonInteractive =>
            /\ pc \in NonInteractivePcs
            /\ run_log = <<>>
            /\ confirms = 0
            /\ register_calls = 0
            /\ pc = "exited" => exit_code \in {<<0>>, <<1>>}
            /\ pc # "exited" => exit_code = <<>>)
    /\ (NonInteractive ~> pc = "exited")

\* a batch run ended in sys.exit(1) without ever calling shell.run
C13_Witness ==
    /\ mode = "Batch"
    /\ pc = "exited"
    /\ exit_code = <<1>>
    /\ run_log = <<>>

\* C14: sys.stdout is replaced by the flushing wrapper exactly in OneShot
\* and Batch mode, once, before the Shell is constructed (the Shell receives
\* the wrapped stream), and never again; in Interactive mode it is never
\* replaced, whatever the number of restarts.
C14_StdoutWrapping ==
    /\ pc \in {"start", "unbuffer"} => stdout_wraps = 0
    /\ pc \notin {"start", "unbuffer"}
          => stdout_wraps = (IF ExpectedMode(params) = "Interactive" THEN 0 ELSE 1)
    /\ mode = "Interactive" => stdout_wraps = 0
    /\ shells # <<>>
          => (shells[1].unbuffered <=> ExpectedMode(params) # "Interactive")

\* a batch run ended with the stream wrapped once, the Shell built on it
C14_Witness ==
    /\ mode = "Batch"
    /\ pc = "exited"
    /\ stdout_wraps = 1
    /\ Len(shells) = 1
    /\ shells[1].unbuffered

\* the line without its line terminator ("\n", or "\r\n")
StripTerminator(s) ==
    IF s # <<>> /\ s[Len(s)] = "\n"
    THEN IF Len(s) >= 2 /\ s[Len(s) - 1] = "\r"
         THEN SubSeq(s, 1, Len(s) - 2)
         ELSE SubSeq(s, 1, Len(s) - 1)
    ELSE s

\* C15 (as claimed): in Batch mode every command given to the Shell is the
\* input line without its line terminator, trailing blanks included.
C15_OnlyTerminatorStripped ==
    mode = "Batch" =>
        \A i \in DOMAIN onecmd_log : onecmd_log[i] = StripTerminator(cmds[i])

\* C16: in Batch mode shell.onecmd is first called only after readlines()
\* has returned the whole input; when readlines() raises IOError, however
\* many lines it had consumed, no command is executed.
C16_ReadBeforeExecute ==
    mode = "Batch" =>
        /\ pc = "batch_read" => (onecmd_log = <<>> /\ stdin_read = <<>>)
        /\ onecmd_log # <<>> => (~read_failed /\ cmds = stdin_read)
        /\ read_failed => (onecmd_log = <<>> /\ pc \in {"exit", "exited"})

\* reading failed after a line had been consumed: nothing ran, exit 1
C16_Witness ==
    /\ mode = "Batch"
    /\ pc = "exited"
    /\ read_failed
    /\ stdin_read # <<>>
    /\ onecmd_log = <<>>
    /\ exit_code = <<1>>

\* C17: the Shell is constructed with async exactly when the mode is
\* Interactive and sync_connect is false, which is exactly when the handler
\* gets registered, and with setup_readline exactly when the mode is
\* Interactive; OneShot and Batch always connect synchronously.
C17_ShellFlags ==
    /\ shells # <<>> =>
          /\ shells[1].async
                <=> (ExpectedMode(params) = "Interactive" /\ ~params.sync_connect)
          /\ shells[1].setup_readline <=> ExpectedMode(params) = "Interactive"
    /\ NonInteractive => ~shells[1].async
    /\ pc \in (SupervisorPcs \ {"register"}) \cup {"returned", "crashed"}
          => (shells[1].async <=> handler)

\* a one-shot run without --sync-connect still built a synchronous Shell
C17_Witness ==
    /\ mode = "OneShot"
    /\ ~params.sync_connect
    /\ pc = "exited"
    /\ ~shells[1].async
    /\ ~shells[1].setup_readline

\* C18: one Shell is constructed per process; the handler is registered at
\* most once, after the construction and before the first shell.run call;
\* restarts and declined exits call shell.run again without constructing a
\* Shell and without registering again.
C18_OneShellOneRegistration ==
    /\ [](/\ Len(shells) <= 1
          /\ pc \notin {"start", "unbuffer", "new_shell"} => Len(shells) = 1
          /\ register_calls <= 1
          /\ handler => (Len(shells) = 1 /\ register_calls = 1)
          /\ pc \in {"register", "intro"} => run_log = <<>>
          /\ (run_log # <<>> /\ ~params.sync_connect) => handler)
    /\ [][ /\ register_calls' # register_calls
              => (Len(shells) = 1 /\ shells' = shells /\ run_log' = <<>>)
           /\ run_log' # run_log
              => (shells' = shells /\ register_calls' = register_calls
                  /\ handler' = handler)
           /\ run_log # <<>> => (shells' = shells /\ handler' = handler)
         ]_vars

\* after a reconnection restart and a declined exit, still one Shell and
\* one registration
C18_Witness ==
    /\ pc = "run"
    /\ Len(run_log) = 3
    /\ restarts = 1
    /\ done = "n"
    /\ Len(shells) = 1
    /\ register_calls = 1

====
